---- MODULE Spec2Model ----
(***************************************************************************)
(* hts, the server half of httptunnel (src/hts.c): command line parsing,   *)
(* start-up, the accept loop and the bridge loop with its keep-alive       *)
(* timer.                                                                  *)
(*                                                                         *)
(* Time is counted in whole seconds, the resolution of time().  It passes  *)
(* while the process is blocked in poll() and while an input handler runs; *)
(* the other statements of the loop take no time.  The program only ever   *)
(* uses differences of two readings of the clock taken in one session, so  *)
(* the clock counts from the start of the session (line 366).              *)
(***************************************************************************)
EXTENDS Integers, Sequences, FiniteSets

\* ------------------------------------------------------------------ bounds
MaxArgs == 3        \* options on a command line
MaxTime == 4        \* seconds of session time explored
MaxPad == 2         \* tunnel_padding calls per session
MaxSessions == 2    \* sessions accepted by one process
MaxHandle == 1      \* seconds one round of input handlers may take
MaxFds == 2         \* downstream descriptors open at once
MaxFails == 2       \* failures of tunnel_accept in a row

\* ------------------------------------------------- constants of the program
DEFAULT_HOST_PORT == 8888
DEFAULT_KEEP_ALIVE == 5

\* values of --keep-alive tried on the command line (atoi of the argument);
\* 2147484 is the least value for which 1000 * keep_alive exceeds INT_MAX
KeepAliveInputs == {-1, 2, 2147484}

VARIABLES
  DEBUG_MODE,         \* build flag (#ifdef DEBUG_MODE)
  debug_level,        \* global debug_level
  debug_file,         \* global debug_file: "NULL", "file" or "stdout"
  arg,                \* Arguments, as left by parse_arguments
  cli,                \* what the command line held (history)
  pc,                 \* position of main
  exit_code,          \* -1 while running
  exit_at,            \* the call that ended the process
  daemonized,         \* daemon() was called
  nNewServer,         \* calls of tunnel_new_server
  tunnel,             \* main's tunnel: "unset", "NULL" or "tunnel"
  setoptFailed,       \* a start-up tunnel_setopt returned -1
  sigpipe,            \* disposition of SIGPIPE
  pidfile,            \* "none", "written", "openfail", "closefail"
  fd,                 \* main's fd
  nOpen,              \* downstream descriptors currently open
  tunnelOpen,         \* between a successful tunnel_accept and tunnel_close
  destroyed,          \* tunnel_destroy was called
  closed,             \* main's closed
  last_tunnel_write,  \* main's last_tunnel_write
  now,                \* the clock: seconds since line 366 of this session
  t,                  \* main's t
  timeout,            \* main's timeout, in milliseconds
  revents,            \* <<pollfd[0].revents, pollfd[1].revents>>
  sess,               \* per-session history
  hist,               \* per-process history: sessions ended, calls of close
                      \* and tunnel_close, tunnel_accept successes, and its
                      \* failures since the last success
  sig                 \* signals delivered (history)

vars == <<DEBUG_MODE, debug_level, debug_file, arg, cli, pc, exit_code, exit_at,
          daemonized, nNewServer, tunnel, setoptFailed, sigpipe, pidfile, fd,
          nOpen,
          tunnelOpen, destroyed, closed, last_tunnel_write, now, t, timeout,
          revents, sess, hist, sig>>

\* ------------------------------------------------------- parse_arguments

\* One option as getopt_long returns it: the option character and the value
\* its argument converts to.
Options ==
  {[o |-> c, v |-> 0] : c \in {"d", "h", "V", "p", "?"}}
    \cup {[o |-> "F", v |-> p] : p \in {-1, 80}}
    \cup {[o |-> "k", v |-> k] : k \in KeepAliveInputs}
    \cup {[o |-> "D", v |-> l] : l \in {0, 1}}
    \cup {[o |-> "l", v |-> r] : r \in {0, 1}}

SeqsUpTo(S, n) == UNION {[1..m -> S] : m \in 0..n}

\* A command line: the options in order, and the positional arguments.
CommandLines ==
  [opts : SeqsUpTo(Options, MaxArgs),
   pos : {<<>>, <<DEFAULT_HOST_PORT>>, <<-1>>, <<DEFAULT_HOST_PORT, DEFAULT_HOST_PORT>>}]

Defaults ==
  [device |-> FALSE, port |-> DEFAULT_HOST_PORT, forward_host |-> FALSE,
   forward_port |-> -1, pid_filename |-> FALSE, keep_alive |-> DEFAULT_KEEP_ALIVE]

\* The state of the option loop: the Arguments, the two globals, and the exit
\* code once exit() was called (-1 before).
ParseStart == [a |-> Defaults, dl |-> 0, df |-> "NULL", exit |-> -1]

\* switch (c), lines 120-196
ParseOption(s, dbg, op) ==
  CASE op.o = "d" -> [s EXCEPT !.a.device = TRUE]
    [] op.o = "F" ->
         LET s1 == [s EXCEPT !.a.forward_host = TRUE, !.a.forward_port = op.v]
         IN  IF op.v = -1 THEN [s1 EXCEPT !.exit = 1] ELSE s1
    [] op.o = "h" -> [s EXCEPT !.exit = 0]
    [] op.o = "V" -> [s EXCEPT !.exit = 0]
    [] op.o = "k" -> [s EXCEPT !.a.keep_alive = op.v]
    [] op.o = "p" -> [s EXCEPT !.a.pid_filename = TRUE]
    [] op.o = "D" /\ dbg -> [s EXCEPT !.dl = op.v]
    [] op.o = "l" /\ dbg ->
         IF op.v = 1 THEN [s EXCEPT !.df = "file"] ELSE [s EXCEPT !.exit = 1]
    [] OTHER -> s

\* for (;;) getopt_long, lines 88-197: an exit ends the loop
RECURSIVE ParseOptions(_, _, _, _)
ParseOptions(s, dbg, opts, i) ==
  IF i > Len(opts) \/ s.exit # -1
    THEN s
    ELSE ParseOptions(ParseOption(s, dbg, opts[i]), dbg, opts, i + 1)

\* lines 199-205
ParsePositional(s, pos) ==
  IF s.exit # -1 THEN s
  ELSE IF Len(pos) = 1 THEN [s EXCEPT !.a.port = pos[1]]
  ELSE IF Len(pos) > 1 THEN [s EXCEPT !.exit = 1]
  ELSE s

UsageErrorNoBoth(s) ==
  \/ (~s.a.device /\ s.a.forward_port = -1)
  \/ (s.dl = 0 /\ s.df # "NULL")
  \/ s.a.port = -1
  \/ (~s.a.forward_host) # (s.a.forward_port = -1)

\* the four checks of lines 207-237, each of which ends in exit (1)
UsageError(s) ==
  \/ (~s.a.device /\ s.a.forward_port = -1)
  \/ (s.a.device /\ s.a.forward_port # -1)
  \/ (s.dl = 0 /\ s.df # "NULL")
  \/ (~s.a.device) = (s.a.forward_port = -1)
  \/ s.a.port = -1
  \/ (~s.a.forward_host) # (s.a.forward_port = -1)

parse_arguments(cl, dbg) ==
  LET s == ParsePositional(ParseOptions(ParseStart, dbg, cl.opts, 1), cl.pos)
  IN  IF s.exit = -1 /\ UsageError(s) THEN [s EXCEPT !.exit = 1] ELSE s

Has(cl, c) == \E i \in 1..Len(cl.opts) : cl.opts[i].o = c


\* what the command line held, for the claims about parse_arguments
Summary(cl) ==
  [parsed |-> TRUE, device |-> Has(cl, "d"), forward |-> Has(cl, "F"),
   helpver |-> Has(cl, "h") \/ Has(cl, "V")]

\* ------------------------------------------------------- the keep-alive timer

\* (int) (1000 * d): the product is formed in time_t and converted to the
\* 32-bit int timeout, which keeps its low 32 bits (two's complement).
Mul1000Int(d) ==
  LET dl == d % 65536
      dh == (d - dl) \div 65536
      p  == 1000 * dl
      lo == p % 65536
      hi == (1000 * dh + (p \div 65536)) % 65536
  IN  IF hi >= 32768 THEN (hi - 65536) * 65536 + lo ELSE hi * 65536 + lo

PollTimeoutNoClamp(keep_alive, tt, ltw) == Mul1000Int(keep_alive - (tt - ltw))

\* lines 380-382
PollTimeout(keep_alive, tt, ltw) ==
  LET ms == Mul1000Int(keep_alive - (tt - ltw))
  IN  IF ms < 0 THEN 0 ELSE ms

\* poll(2): a negative timeout blocks without a bound; otherwise the call has
\* expired once timeout milliseconds have passed since it was made at t.
PollExpired == timeout >= 0 /\ (now - t) * 1000 >= timeout

\* ------------------------------------------------------------ input handlers

\* handle_device_input on a readable downstream fd: bytes read and written to
\* the tunnel, end of file, an error (of the read or of tunnel_write), or
\* nothing to read after all
DeviceOutcomes(rev) ==
  IF rev = {} THEN {"skip"} ELSE {"wrote", "eof", "error", "again"}

\* handle_tunnel_input on a readable tunnel: bytes copied downstream, the
\* tunnel closed or failed, or nothing to read during a re-handshake
TunnelOutcomes(rev) ==
  IF rev = {} THEN {"skip"} ELSE {"copied", "closed", "again"}

\* handle_input sets *closed on end of file and on an unrecoverable error
HandlerCloses(outcome) == outcome \in {"eof", "error", "closed"}

\* ------------------------------------------------------------------- state

NoSession ==
  [padCalls |-> 0,      \* tunnel_padding calls of this session
   traffic |-> FALSE,   \* poll has reported a readable fd in this session
   idle |-> TRUE,       \* no fd was readable since last_tunnel_write was set
   justified |-> TRUE]  \* last_tunnel_write was last set when a byte was written

Init ==
  /\ DEBUG_MODE \in BOOLEAN
  /\ debug_level = 0
  /\ debug_file = "NULL"
  /\ arg = Defaults
  /\ cli = [parsed |-> FALSE, device |-> FALSE, forward |-> FALSE, helpver |-> FALSE]
  /\ pc = "parse"
  /\ exit_code = -1
  /\ exit_at = "none"
  /\ daemonized = FALSE
  /\ nNewServer = 0
  /\ tunnel = "unset"
  /\ setoptFailed = FALSE
  /\ sigpipe = "SIG_DFL"
  /\ pidfile = "none"
  /\ fd = -1
  /\ nOpen = 0
  /\ tunnelOpen = FALSE
  /\ destroyed = FALSE
  /\ closed = FALSE
  /\ last_tunnel_write = 0
  /\ now = 0
  /\ t = 0
  /\ timeout = 0
  /\ revents = <<{}, {}>>
  /\ sess = NoSession
  /\ hist = [sessionsEnded |-> 0, nFdClose |-> 0, nTunnelClose |-> 0,
             accepted |-> 0, fails |-> 0]
  /\ sig = [killedBy |-> "none", at |-> "none"]

startupVars == <<DEBUG_MODE, debug_level, debug_file, arg, cli, daemonized,
                 nNewServer, tunnel, setoptFailed, sigpipe, pidfile>>
bridgeVars == <<closed, last_tunnel_write, now, t, timeout, revents, sess>>
processVars == <<fd, nOpen, closed, last_tunnel_write, now, t, timeout, revents, sess>>

\* The process is gone: so are main's variables and its open descriptors.
ProcessEnds ==
  /\ fd' = -1
  /\ nOpen' = 0
  /\ closed' = FALSE
  /\ last_tunnel_write' = 0
  /\ now' = 0
  /\ t' = 0
  /\ timeout' = 0
  /\ revents' = <<{}, {}>>
  /\ sess' = NoSession

\* exit (code) and log_exit (code)
Exit(code, at) ==
  /\ pc' = "exited"
  /\ exit_code' = code
  /\ exit_at' = at
  /\ ProcessEnds

Running == pc \notin {"exited", "killed"}

\* ----------------------------------------------------------------- start-up

\* line 249
ParseArguments ==
  /\ pc = "parse"
  /\ \E cl \in CommandLines :
       LET s == parse_arguments(cl, DEBUG_MODE)
       IN  /\ arg' = s.a
           /\ debug_level' = s.dl
           /\ debug_file' = s.df
           /\ cli' = Summary(cl)
           /\ IF s.exit # -1
                THEN Exit(s.exit, "parse_arguments")
                ELSE /\ pc' = "daemon"
                     /\ UNCHANGED <<exit_code, exit_at>>
                     /\ UNCHANGED processVars
  /\ UNCHANGED <<DEBUG_MODE, daemonized, nNewServer, tunnel, setoptFailed, sigpipe,
                 pidfile, tunnelOpen, destroyed, hist, sig>>

\* lines 251-259
Daemon ==
  /\ pc = "daemon"
  /\ daemonized' = (debug_level = 0 \/ debug_file # "NULL")
  /\ debug_file' = IF DEBUG_MODE /\ debug_level # 0 /\ debug_file = "NULL"
                     THEN "stdout" ELSE debug_file
  /\ pc' = "new_server"
  /\ UNCHANGED <<DEBUG_MODE, debug_level, arg, cli, exit_code, exit_at,
                 nNewServer, tunnel, setoptFailed, sigpipe, pidfile,
                 tunnelOpen, destroyed, hist, sig>>
  /\ UNCHANGED processVars

NewServerIgnoresNull ==
  /\ pc = "new_server"
  /\ nNewServer' = nNewServer + 1
  /\ tunnel' \in {"NULL", "tunnel"}
  /\ pc' = "setopt"
  /\ UNCHANGED <<exit_code, exit_at>>
  /\ UNCHANGED processVars
  /\ UNCHANGED <<DEBUG_MODE, debug_level, debug_file, arg, cli, daemonized,
                 setoptFailed, sigpipe, pidfile, tunnelOpen, destroyed, hist, sig>>

\* lines 273-278
NewServer ==
  /\ pc = "new_server"
  /\ nNewServer' = nNewServer + 1
  /\ \E r \in {"NULL", "tunnel"} :
       /\ tunnel' = r
       /\ IF r = "NULL"
            THEN Exit(1, "tunnel_new_server")
            ELSE /\ pc' = "setopt"
                 /\ UNCHANGED <<exit_code, exit_at>>
                 /\ UNCHANGED processVars
  /\ UNCHANGED <<DEBUG_MODE, debug_level, debug_file, arg, cli, daemonized,
                 setoptFailed, sigpipe, pidfile, tunnelOpen, destroyed, hist, sig>>

\* lines 280-291: a failure is logged with log_debug and nothing else
Setopt ==
  /\ pc = "setopt"
  /\ \E r1, r2, r3 \in {0, -1} : setoptFailed' = (-1 \in {r1, r2, r3})
  /\ pc' = "signal"
  /\ UNCHANGED <<DEBUG_MODE, debug_level, debug_file, arg, cli, exit_code,
                 exit_at, daemonized, nNewServer, tunnel, sigpipe, pidfile,
                 tunnelOpen, destroyed, hist, sig>>
  /\ UNCHANGED processVars

\* lines 293-297
SignalSetup ==
  /\ pc = "signal"
  /\ sigpipe' = IF DEBUG_MODE THEN "log_sigpipe" ELSE "SIG_IGN"
  /\ pc' = "pid_file"
  /\ UNCHANGED <<DEBUG_MODE, debug_level, debug_file, arg, cli, exit_code,
                 exit_at, daemonized, nNewServer, tunnel, setoptFailed, pidfile,
                 tunnelOpen, destroyed, hist, sig>>
  /\ UNCHANGED processVars

PidFileFatal ==
  /\ pc = "pid_file"
  /\ \/ /\ arg.pid_filename
        /\ pidfile' = "openfail"
        /\ Exit(1, "pid_file")
     \/ /\ pidfile' = IF arg.pid_filename THEN "written" ELSE "none"
        /\ pc' = "outer"
        /\ UNCHANGED <<exit_code, exit_at>>
        /\ UNCHANGED processVars
  /\ UNCHANGED <<DEBUG_MODE, debug_level, debug_file, arg, cli, daemonized,
                 nNewServer, tunnel, setoptFailed, sigpipe, tunnelOpen,
                 destroyed, hist, sig>>

\* lines 299-316
PidFile ==
  /\ pc = "pid_file"
  /\ IF arg.pid_filename
       THEN pidfile' \in {"openfail", "written", "closefail"}
       ELSE pidfile' = "none"
  /\ pc' = "outer"
  /\ UNCHANGED <<DEBUG_MODE, debug_level, debug_file, arg, cli, exit_code,
                 exit_at, daemonized, nNewServer, tunnel, setoptFailed, sigpipe,
                 tunnelOpen, destroyed, hist, sig>>
  /\ UNCHANGED processVars

\* ---------------------------------------------------------- the accept loop

\* lines 365-366
SessionStart ==
  /\ closed' = FALSE
  /\ last_tunnel_write' = now
  /\ sess' = NoSession
  /\ UNCHANGED <<now, t, timeout, revents>>

\* lines 324-334, open_device succeeds
OpenDevice ==
  /\ pc = "outer"
  /\ arg.device
  /\ nOpen < MaxFds
  /\ fd' = 3 + nOpen
  /\ nOpen' = nOpen + 1
  /\ pc' = "accept"
  /\ UNCHANGED <<exit_code, exit_at, tunnelOpen, destroyed, hist, sig>>
  /\ UNCHANGED bridgeVars
  /\ UNCHANGED startupVars

\* lines 326-333, open_device returns -1
OpenDeviceFail ==
  /\ pc = "outer"
  /\ arg.device
  /\ Exit(1, "open_device")
  /\ UNCHANGED <<tunnelOpen, destroyed, hist, sig>>
  /\ UNCHANGED startupVars

NoDeviceConnectsEarly ==
  /\ pc = "outer"
  /\ ~arg.device
  /\ nOpen < MaxFds
  /\ fd' = 3 + nOpen
  /\ nOpen' = nOpen + 1
  /\ pc' = "accept"
  /\ UNCHANGED <<exit_code, exit_at, tunnelOpen, destroyed, hist, sig>>
  /\ UNCHANGED bridgeVars
  /\ UNCHANGED startupVars

\* line 324 with arg.device == NULL
NoDevice ==
  /\ pc = "outer"
  /\ ~arg.device
  /\ pc' = "accept"
  /\ UNCHANGED <<exit_code, exit_at, tunnelOpen, destroyed, hist, sig>>
  /\ UNCHANGED processVars
  /\ UNCHANGED startupVars

\* lines 336-341 and, in device mode, 343 and 365-366
Accept ==
  /\ pc = "accept"
  /\ hist.sessionsEnded < MaxSessions
  /\ tunnelOpen' = TRUE
  /\ hist' = [hist EXCEPT !.accepted = @ + 1, !.fails = 0]
  /\ IF arg.forward_port # -1
       THEN pc' = "connect" /\ UNCHANGED bridgeVars
       ELSE pc' = "loop" /\ SessionStart
  /\ UNCHANGED <<exit_code, exit_at, fd, nOpen, destroyed, sig>>
  /\ UNCHANGED startupVars

\* lines 336-340, tunnel_accept returns -1
AcceptFail ==
  /\ pc = "accept"
  /\ hist.fails < MaxFails
  /\ hist' = [hist EXCEPT !.fails = @ + 1]
  /\ pc' = "outer"
  /\ UNCHANGED <<exit_code, exit_at, tunnelOpen, destroyed, sig>>
  /\ UNCHANGED processVars
  /\ UNCHANGED startupVars

\* lines 343-366, set_address and do_connect succeed
Connect ==
  /\ pc = "connect"
  /\ nOpen < MaxFds
  /\ fd' = 3 + nOpen
  /\ nOpen' = nOpen + 1
  /\ pc' = "loop"
  /\ SessionStart
  /\ UNCHANGED <<exit_code, exit_at, tunnelOpen, destroyed, hist, sig>>
  /\ UNCHANGED startupVars

\* lines 347-352 and 354-362: either failure ends in log_exit (1)
ConnectFail ==
  /\ pc = "connect"
  /\ \E f \in {"set_address", "do_connect"} : Exit(1, f)
  /\ UNCHANGED <<tunnelOpen, destroyed, hist, sig>>
  /\ UNCHANGED startupVars

\* ---------------------------------------------------------- the bridge loop

\* lines 367-385: the loop test holds, the timeout is computed, poll is called
PollCall ==
  /\ pc = "loop"
  /\ ~closed
  /\ t' = now
  /\ timeout' = PollTimeout(arg.keep_alive, now, last_tunnel_write)
  /\ pc' = "poll"
  /\ UNCHANGED <<exit_code, exit_at, fd, nOpen, tunnelOpen, destroyed, hist, sig,
                 closed, last_tunnel_write, now, revents, sess>>
  /\ UNCHANGED startupVars

\* line 385: a second passes while poll blocks
Tick ==
  /\ pc = "poll"
  /\ ~PollExpired
  /\ now < MaxTime
  /\ now' = now + 1
  /\ UNCHANGED <<pc, exit_code, exit_at, fd, nOpen, tunnelOpen, destroyed, hist,
                 sig, closed, last_tunnel_write, t, timeout, revents, sess>>
  /\ UNCHANGED startupVars

\* lines 387-391
PollError ==
  /\ pc = "poll"
  /\ Exit(1, "poll")
  /\ UNCHANGED <<tunnelOpen, destroyed, hist, sig>>
  /\ UNCHANGED startupVars

\* lines 392-398: poll returns 0; the result of tunnel_padding is not looked
\* at.  t and timeout belong to the iteration that ends here.
PollTimedOut ==
  /\ pc = "poll"
  /\ PollExpired
  /\ sess.padCalls < MaxPad
  /\ \E written \in BOOLEAN :
       sess' = [sess EXCEPT !.padCalls = @ + 1, !.justified = written,
                            !.idle = TRUE]
  /\ last_tunnel_write' = now
  /\ t' = 0
  /\ timeout' = 0
  /\ pc' = "loop"
  /\ UNCHANGED <<exit_code, exit_at, fd, nOpen, tunnelOpen, destroyed, hist, sig,
                 closed, now, revents>>
  /\ UNCHANGED startupVars

\* line 385: poll returns n > 0 with POLLIN on at least one of the two fds.
\* t and timeout are not read again in this iteration.
PollReady ==
  /\ pc = "poll"
  /\ \E r0, r1 \in {{}, {"POLLIN"}} :
       /\ r0 \cup r1 # {}
       /\ revents' = <<r0, r1>>
  /\ sess' = [sess EXCEPT !.traffic = TRUE, !.idle = FALSE]
  /\ t' = 0
  /\ timeout' = 0
  /\ pc' = "handle"
  /\ UNCHANGED <<exit_code, exit_at, fd, nOpen, tunnelOpen, destroyed, hist, sig,
                 closed, last_tunnel_write, now>>
  /\ UNCHANGED startupVars

\* lines 400-408: both handlers, then last_tunnel_write when the downstream
\* fd was readable, whatever its handler did
HandleInput ==
  /\ pc = "handle"
  /\ \E d \in DeviceOutcomes(revents[1]), u \in TunnelOutcomes(revents[2]),
        dur \in 0..MaxHandle :
       /\ now + dur <= MaxTime
       /\ now' = now + dur
       /\ closed' = (HandlerCloses(d) \/ HandlerCloses(u))
       /\ IF "POLLIN" \in revents[1]
            THEN /\ last_tunnel_write' = now + dur
                 /\ sess' = [sess EXCEPT !.justified = (d = "wrote"), !.idle = TRUE]
            ELSE /\ last_tunnel_write' = last_tunnel_write
                 /\ sess' = [sess EXCEPT !.idle = FALSE]
  /\ revents' = <<{}, {}>>
  /\ pc' = "loop"
  /\ UNCHANGED <<exit_code, exit_at, fd, nOpen, tunnelOpen, destroyed, hist, sig,
                 t, timeout>>
  /\ UNCHANGED startupVars

LoopExitSkipsClose ==
  /\ pc = "loop"
  /\ closed
  /\ pc' = "outer"
  /\ UNCHANGED <<exit_code, exit_at, tunnelOpen, destroyed, hist, sig>>
  /\ UNCHANGED processVars
  /\ UNCHANGED startupVars

\* line 367 with closed set: the loop is left
LoopExit ==
  /\ pc = "loop"
  /\ closed
  /\ pc' = "close"
  /\ UNCHANGED <<exit_code, exit_at, tunnelOpen, destroyed, hist, sig>>
  /\ UNCHANGED processVars
  /\ UNCHANGED startupVars

CloseNoTunnelClose ==
  /\ pc = "close"
  /\ nOpen' = nOpen - 1
  /\ hist' = [hist EXCEPT !.sessionsEnded = @ + 1, !.nFdClose = @ + 1]
  /\ last_tunnel_write' = 0
  /\ now' = 0
  /\ sess' = NoSession
  /\ pc' = "outer"
  /\ UNCHANGED <<exit_code, exit_at, fd, tunnelOpen, destroyed, sig, closed, t,
                 timeout, revents>>
  /\ UNCHANGED startupVars

\* lines 411-415; the session's last_tunnel_write goes out of scope
Close ==
  /\ pc = "close"
  /\ nOpen' = nOpen - 1
  /\ tunnelOpen' = FALSE
  /\ hist' = [hist EXCEPT !.sessionsEnded = @ + 1, !.nFdClose = @ + 1,
                          !.nTunnelClose = @ + 1]
  /\ last_tunnel_write' = 0
  /\ now' = 0
  /\ sess' = NoSession
  /\ pc' = "outer"
  /\ UNCHANGED <<exit_code, exit_at, fd, destroyed, sig, closed, t, timeout,
                 revents>>
  /\ UNCHANGED startupVars

\* ------------------------------------------------------------------ signals

\* SIGTERM and SIGINT: main installs no handler for either (the only call of
\* signal is that of lines 293-297), so the default action ends the process
Terminate ==
  /\ Running
  /\ \E s \in {"SIGTERM", "SIGINT"} :
       sig' = [killedBy |-> s, at |-> pc]
  /\ pc' = "killed"
  /\ ProcessEnds
  /\ UNCHANGED <<exit_code, exit_at, tunnelOpen, destroyed, hist>>
  /\ UNCHANGED startupVars

\* SIGPIPE: the default action until line 294/296 has run; after that the
\* signal is caught by log_sigpipe or ignored, and main goes on
Sigpipe ==
  /\ Running
  /\ IF sigpipe = "SIG_DFL"
       THEN /\ sig' = [killedBy |-> "SIGPIPE", at |-> pc]
            /\ pc' = "killed"
            /\ ProcessEnds
       ELSE /\ UNCHANGED <<sig, pc>>
            /\ UNCHANGED processVars
  /\ UNCHANGED <<exit_code, exit_at, tunnelOpen, destroyed, hist>>
  /\ UNCHANGED startupVars

\* The statements after the outer loop (lines 417-420: tunnel_destroy and
\* log_exit (0)) follow a for (;;) without a break: no step reaches them.

Next ==
  \/ ParseArguments
  \/ Daemon
  \/ NewServer
  \/ Setopt
  \/ SignalSetup
  \/ PidFile
  \/ OpenDevice
  \/ OpenDeviceFail
  \/ NoDevice
  \/ Accept
  \/ AcceptFail
  \/ Connect
  \/ ConnectFail
  \/ PollCall
  \/ Tick
  \/ PollError
  \/ PollTimedOut
  \/ PollReady
  \/ HandleInput
  \/ LoopExit
  \/ Close
  \/ Terminate
  \/ Sigpipe

Spec == Init /\ [][Next]_vars

\* =================================================================== claims

Max0(x) == IF x < 0 THEN 0 ELSE x

InBridge == pc \in {"loop", "poll", "handle"}

\* C1, as stated: whenever the command line sets neither or both of --device
\* and --forward-port, parse_arguments exits with code 1 before
\* tunnel_new_server is called.
C1_ExitOneOnBadTarget ==
  (cli.parsed /\ cli.device = cli.forward)
    => (pc = "exited" /\ exit_code = 1 /\ nNewServer = 0)

\* C1, amended: whenever the command line sets neither or both of --device and
\* --forward-port, parse_arguments exits the process before tunnel_new_server
\* is called (no daemonization, no PID file, no accept); the exit code is 1,
\* or 0 when the command line holds --help or --version.
C1_ExitOnBadTarget ==
  (cli.parsed /\ cli.device = cli.forward)
    => /\ pc = "exited"
       /\ exit_at = "parse_arguments"
       /\ exit_code = 1 \/ (exit_code = 0 /\ cli.helpver)
       /\ nNewServer = 0
       /\ ~daemonized
       /\ pidfile = "none"
       /\ ~tunnelOpen

\* C1 witness: both options given with a valid port, no --help or --version:
\* the exit is that of line 221.
C1_Witness ==
  /\ pc = "exited"
  /\ cli.parsed /\ cli.device /\ cli.forward /\ ~cli.helpver
  /\ arg.device /\ arg.forward_port # -1
  /\ exit_code = 1

C3_NoLongWriteGap ==
  InBridge => now - last_tunnel_write <= Max0(arg.keep_alive) + MaxHandle

\* C4, as stated: the timeout passed to poll is 1000 * max(0, keep_alive -
\* (now - last_tunnel_write)) milliseconds and is never negative.
C4_TimeoutFormula ==
  pc = "poll"
    => /\ timeout >= 0
       /\ timeout % 1000 = 0
       /\ timeout \div 1000 = Max0(arg.keep_alive - (t - last_tunnel_write))

\* C5, as stated: in a session with keep_alive = K > 0 and no traffic, exactly
\* one padding octet has been requested per K seconds elapsed, never more.
C5_OnePaddingPerPeriod ==
  (pc = "loop" /\ arg.keep_alive > 0 /\ ~sess.traffic)
    => sess.padCalls = now \div arg.keep_alive

\* C6, as stated: last_tunnel_write is only ever advanced in an iteration in
\* which a byte was written to the tunnel.
C6_StampOnlyOnWrite ==
  InBridge => sess.justified

C7_Inv ==
  /\ pc \in {"poll", "handle"} => ~closed
  /\ pc \in {"outer", "accept"} =>
       /\ ~tunnelOpen
       /\ hist.nFdClose = hist.sessionsEnded
       /\ hist.nTunnelClose = hist.sessionsEnded
  /\ nNewServer <= 1

C7_LeaveAndClose ==
  /\ (pc = "loop" /\ closed) => pc' \in {"close", "killed"}
  /\ pc = "close" =>
       \/ pc' = "killed"
       \/ /\ pc' = "outer"
          /\ hist'.nFdClose = hist.nFdClose + 1
          /\ hist'.nTunnelClose = hist.nTunnelClose + 1
          /\ ~tunnelOpen'

\* C7, as stated: once a session has ended the loop is left without another
\* poll, the fd is closed once and tunnel_close called once, and the outer
\* loop goes on to tunnel_accept on the same tunnel (unless a signal ends the
\* process).
C7_AlwaysAcceptsAgain ==
  /\ []C7_Inv
  /\ [][/\ C7_LeaveAndClose
        /\ (pc = "outer" /\ hist.sessionsEnded > 0) => pc' \in {"accept", "killed"}
       ]_vars

\* C7, amended: once a session has ended the loop is left without another
\* poll, the fd is closed once and tunnel_close called once, and the outer
\* loop goes on to tunnel_accept on the same tunnel, except that in device
\* mode the device is opened again first and the process exits with code 1
\* when that fails.
C7_AcceptsAgain ==
  /\ []C7_Inv
  /\ [][/\ C7_LeaveAndClose
        /\ (pc = "outer" /\ hist.sessionsEnded > 0) =>
             \/ pc' \in {"accept", "killed"}
             \/ /\ arg.device
                /\ pc' = "exited"
                /\ exit_code' = 1
                /\ exit_at' = "open_device"
       ]_vars

\* C7 witness: tunnel_accept is about to be called after two sessions have
\* ended, on the one tunnel the process created.
C7_Witness ==
  /\ pc = "accept"
  /\ hist.sessionsEnded >= 2
  /\ hist.nTunnelClose = hist.sessionsEnded
  /\ nNewServer = 1

\* C8, as stated: once the tunnel exists, the process exits only when the
\* device cannot be opened.
C8_ExitOnlyOnDevice ==
  (pc = "exited" /\ exit_at \notin {"parse_arguments", "tunnel_new_server"})
    => exit_at = "open_device"

\* C9, as stated: after a failed start-up tunnel_setopt the process never
\* reaches tunnel_accept.
C9_SetoptFailureFatal ==
  setoptFailed => pc \notin {"accept", "connect", "loop", "poll", "handle", "close"}

\* C10, as stated: a process that SIGTERM or SIGINT reached in the bridge loop
\* ends with exit code 0 after closing the session and destroying the tunnel,
\* and SIGPIPE does not end a process that has reached the bridge loop.
C10_OrderlyShutdown ==
  /\ (sig.killedBy \in {"SIGTERM", "SIGINT"} /\ sig.at \in {"loop", "poll", "handle"})
       => (pc = "exited" /\ exit_code = 0 /\ destroyed /\ ~tunnelOpen)
  /\ (sig.killedBy = "SIGPIPE") => sig.at \notin {"loop", "poll", "handle"}

\* C11, as stated: after tunnel_accept has failed, any number of times in a
\* row, the process has not exited, no session was started, the tunnel is
\* kept, and the outer loop is on its way to tunnel_accept again (unless a
\* signal ends the process).
C11_FailedAcceptNotFatal ==
  hist.fails > 0 =>
    /\ pc \in {"outer", "accept", "killed"}
    /\ tunnel = "tunnel"
    /\ ~tunnelOpen
    /\ ~destroyed

\* C12: tunnel_new_server is called once, by every process that gets past
\* parse_arguments and daemon; tunnel_accept is never called while an accepted
\* session has not been ended by tunnel_close, so that successful accepts and
\* tunnel_close calls alternate.
C12_OnePeerAtATime ==
  /\ nNewServer <= 1
  /\ (nNewServer = 1) <=> (tunnel # "unset")
  /\ pc \in {"setopt", "signal", "pid_file", "outer", "accept", "connect",
             "loop", "poll", "handle", "close"} => tunnel = "tunnel"
  /\ tunnelOpen => pc \in {"connect", "loop", "poll", "handle", "close",
                           "exited", "killed"}
  /\ hist.accepted = hist.nTunnelClose + (IF tunnelOpen THEN 1 ELSE 0)

\* C12 witness: tunnel_accept is about to be called a third time, after two
\* accepted sessions that tunnel_close ended.
C12_Witness ==
  /\ pc = "accept"
  /\ hist.accepted = 2
  /\ hist.nTunnelClose = 2
  /\ ~tunnelOpen
  /\ tunnel = "tunnel"

\* C13: when tunnel_new_server returns NULL the process exits with code 1
\* without applying options, installing the SIGPIPE disposition, writing the
\* PID file or calling tunnel_accept.
C13_NoTunnelIsFatal ==
  tunnel = "NULL" =>
    /\ pc = "exited"
    /\ exit_code = 1
    /\ exit_at = "tunnel_new_server"
    /\ ~setoptFailed
    /\ sigpipe = "SIG_DFL"
    /\ pidfile = "none"
    /\ hist.accepted = 0
    /\ hist.fails = 0
    /\ nOpen = 0

\* C13 witness: a daemonized process whose tunnel_new_server returned NULL has
\* exited.
C13_Witness ==
  /\ tunnel = "NULL"
  /\ daemonized
  /\ pc = "exited"
  /\ nNewServer = 1

C15_Inv ==
  /\ (arg.forward_port # -1 /\ pc \in {"outer", "accept", "connect"}) => nOpen = 0
  /\ (arg.forward_port # -1 /\ InBridge) => (nOpen = 1 /\ tunnelOpen)
  /\ (arg.device /\ pc = "accept") => nOpen >= 1

C15_Step ==
  /\ nOpen' > nOpen =>
       /\ nOpen' = nOpen + 1
       /\ \/ (arg.device /\ pc = "outer" /\ pc' = "accept" /\ ~tunnelOpen)
          \/ (arg.forward_port # -1 /\ pc = "connect" /\ pc' = "loop" /\ tunnelOpen)
  /\ (arg.device /\ pc = "outer" /\ pc' = "accept") => nOpen' = nOpen + 1
  /\ (pc = "connect" /\ pc' = "loop") => nOpen' = nOpen + 1
  /\ (pc # "connect" /\ pc' = "connect") =>
       (arg.forward_port # -1 /\ pc = "accept" /\ ~tunnelOpen /\ tunnelOpen')
  /\ (arg.forward_port # -1 /\ pc' = "loop" /\ pc \notin {"loop", "handle", "poll"}) =>
       pc = "connect"

\* C15: in forward mode the connection is made only after tunnel_accept has
\* succeeded, once per accepted session and before the session's first poll,
\* and none is open while the server waits for a peer; in device mode the
\* device is opened once in every pass of the outer loop, before tunnel_accept.
C15_ConnectAfterAccept ==
  /\ []C15_Inv
  /\ [][C15_Step]_vars

\* C15 witness: in forward mode the second session is in poll with the one
\* connection made for it.
C15_Witness ==
  /\ arg.forward_port # -1
  /\ pc = "poll"
  /\ hist.sessionsEnded = 1
  /\ hist.accepted = 2
  /\ nOpen = 1

C16_Inv ==
  /\ pc \in {"parse", "daemon", "new_server", "setopt", "signal", "pid_file"}
       => pidfile = "none"
  /\ pidfile # "none" =>
       /\ arg.pid_filename
       /\ tunnel = "tunnel"
       /\ debug_level = 0 => daemonized

C16_Step ==
  /\ pidfile' # pidfile =>
       /\ pc = "pid_file"
       /\ pc' = "outer"
       /\ arg.pid_filename
       /\ tunnel = "tunnel"
       /\ hist.accepted = 0
       /\ hist.fails = 0
  /\ (daemonized' # daemonized \/ tunnel' # tunnel) =>
       (pidfile = "none" /\ pidfile' = "none")
  /\ pc = "pid_file" => pc' \in {"outer", "killed"}

\* C16: the PID file is written after daemon () and tunnel_new_server and
\* before the first tunnel_accept, and whether it could be opened and closed
\* or not, the process goes on to the accept loop.
C16_PidFileOfTheServer ==
  /\ []C16_Inv
  /\ [][C16_Step]_vars

\* C16 witness: a daemonized server whose PID file could not be opened is in
\* poll, serving a session.
C16_Witness ==
  /\ pidfile = "openfail"
  /\ daemonized
  /\ pc = "poll"

====
